---- MODULE Spec2Model ----
(***************************************************************************)
(* GlobalStateManager (src/src/utils/globalStateManager.ts): the registry  *)
(* of Overleaf servers kept in the extension's global state, the session   *)
(* of each server, its cached project list, and the remote operations that *)
(* are gated on the session.                                               *)
(*                                                                         *)
(* The registry lives under the single key 'overleaf-servers'.  Every      *)
(* operation starts with globalState.get (the whole registry) and writes   *)
(* with globalState.update (the whole registry).  JavaScript runs the      *)
(* synchronous part of an operation without interruption; every `await`    *)
(* of a remote call is a point where other operations may run.  An action  *)
(* of this model is therefore one synchronous segment of one operation:    *)
(* from its call to its first await (or its return), or from the arrival   *)
(* of a remote result to the next await (or the return).  The registry     *)
(* object an operation holds is its own copy of the stored value: what the *)
(* operation changes in it reaches the store with update, and only then.   *)
(***************************************************************************)
EXTENDS Integers, Sequences, FiniteSets, TLC

\* ---------------------------------------------------------------- values

\* JavaScript's undefined, for the string-valued optional fields.
Undefined == "undefined"

\* An optional object-valued field (login, projects): absent or one value.
None == << >>
Some(x) == << x >>
IsSome(o) == Len(o) = 1
Val(o) == o[1]

\* Server names the callers use.  "constructor" is a name every plain
\* JavaScript object inherits from Object.prototype.
OwnNames == {"lab", "dev"}
InheritedNames == {"constructor"}
Names == OwnNames \cup InheritedNames

Urls == {"https://lab.example", "https://dev.example"}

\* Messages a remote result may carry (the login result's message is the
\* user id).
Messages == {"m1", "m2"}
OptMessages == {Undefined} \cup Messages

Identities == {"id1", "id2"}

\* Largest project list a remote listing returns in the model.
MaxProjects == 2

\* Callers that may have an operation in flight.
Procs == {1, 2}

\* Operations started in a run of the interleaved callers.
MaxCalls == 5

\* ------------------------------------------------------- persisted data

\* A ProjectPersist, reduced to the fields the manager reads or writes.
Project(id, userId) == [id |-> id, userId |-> userId]

\* ServerPersist.login
Session(userId, username, identity, projects) ==
    [userId |-> userId, username |-> username, identity |-> identity,
     projects |-> projects]

\* The object literal { name, url } of addServer: an entry with no login.
Entry(name, url) == [name |-> name, url |-> url, login |-> None]

\* The default value {} of globalState.get.
EmptyRegistry == [n \in {} |-> Entry(n, Undefined)]

\* What the expression persists[name] evaluates to: the entry stored under
\* the key, else a property the object inherits from Object.prototype, else
\* undefined.
ServerRef(persists, name) ==
    IF name \in DOMAIN persists THEN "entry"
    ELSE IF name \in InheritedNames THEN "inherited"
    ELSE "undefined"

\* ------------------------------------------------------ remote results

\* A ResponseSchema: its type tag and the optional fields the manager reads.
Result(type, message, identity, projects, payload) ==
    [type |-> type, message |-> message, identity |-> identity,
     projects |-> projects, payload |-> payload]

ResultTypes == {"success", "error"}

\* Project lists as the remote sends them: the userId is the remote's.
Payload(k) == [i \in 1..k |-> Project(i, "remote")]
Payloads == {Payload(k) : k \in 0..MaxProjects}

\* cookiesLogin / passportLogin: the remote gives the user "m2" the identity
\* "id2" and every other caller "id1", when it gives an identity at all.
IdentityFor(m) == IF m = "m2" THEN "id2" ELSE "id1"
LoginResults ==
    {Result(t, m, i, None, Undefined) :
        t \in ResultTypes, m \in OptMessages, i \in Identities \cup {Undefined}}
    \ {r \in [type : ResultTypes, message : OptMessages, identity : Identities,
               projects : {None}, payload : {Undefined}] :
           r.identity /= IdentityFor(r.message)}

\* logout, deleteAuxFiles
PlainResults ==
    {Result(t, m, Undefined, None, Undefined) :
        t \in ResultTypes, m \in {Undefined, "m1"}}

\* getProjectsJson / userProjectsJson, with the message msg when one is sent
ListResults(msg) ==
    {Result("success", m, Undefined, ps, Undefined) :
        m \in {Undefined, msg}, ps \in {None} \cup {Some(q) : q \in Payloads}}
    \cup
    {Result("error", m, Undefined, ps, Undefined) :
        m \in {Undefined, msg}, ps \in {None, Some(Payload(1))}}

\* uploadFile, addFolder, deleteEntity, renameEntity, moveEntity, compile:
\* the payload is the entity or the compile output
PayloadResults ==
    {Result(t, m, Undefined, None, d) :
        t \in ResultTypes, m \in {Undefined, "m1"}, d \in {Undefined, "data"}}

\* The auth argument of loginServer.
Auth(cookies, email, password) ==
    [cookies |-> cookies, email |-> email, password |-> password]
NoAuth == Auth(Undefined, Undefined, Undefined)
Auths == {Auth("c1", Undefined, Undefined),
          Auth(Undefined, "e1", "pw"),
          Auth("c1", "e1", Undefined)}

\* JavaScript truthiness of an optional string.
Truthy(s) == s /= Undefined /\ s /= ""

\* ----------------------------------------------------------------- state

VARIABLES
    store,       \* the value of globalState under keyServerPersists
    protoLogin,  \* the `login` property of the object an inherited name denotes
    frame,       \* per caller: the operation it runs, its locals and its outcome
    session,     \* history, per name: a login succeeded and no logout completed since
    budget       \* operations the interleaved callers may still start

vars == << store, protoLogin, frame, session, budget >>

\* A caller with no operation: nothing called yet.
IdleFrame ==
    [op |-> "none", pc |-> "idle", name |-> "", url |-> Undefined,
     persists |-> EmptyRegistry, auth |-> NoAuth, flag |-> FALSE,
     calls |-> << >>, results |-> << >>, shown |-> << >>, writes |-> 0,
     ret |-> "none", retProjects |-> << >>, retVal |-> Undefined,
     retServers |-> {}]

\* The locals of an operation right after its globalState.get.
NewFrame(op, name, persists) ==
    [IdleFrame EXCEPT !.op = op, !.pc = "run", !.name = name,
                      !.persists = persists]

\* A remote call: the api method and the identity passed to it.
ApiCall(api, identity) == [api |-> api, identity |-> identity]

\* The operation suspends at `await api.method(identity, ...)`.
Await(f, pc, api, identity) ==
    [f EXCEPT !.pc = pc, !.calls = Append(@, ApiCall(api, identity))]

\* The awaited call returns res.
Resume(f, res) == [f EXCEPT !.results = Append(@, res)]

\* showErrorMessage called without the test of res.message
ShowAlways(f, res) == [f EXCEPT !.shown = Append(@, res.message)]

\* vscode.window.showErrorMessage(res.message), under `res.message!==undefined`.
ShowIfMessage(f, res) ==
    IF res.message /= Undefined
    THEN [f EXCEPT !.shown = Append(@, res.message)]
    ELSE f

\* return <kind>: "true", "false", "undefined", "projects", "value", ...
Return(f, kind) == [f EXCEPT !.pc = "done", !.ret = kind]

\* `server.login` with server undefined: a TypeError leaves the operation.
Throw(f) == [f EXCEPT !.pc = "done", !.ret = "TypeError"]

\* context.globalState.update(keyServerPersists, persists)
Wrote(f) == [f EXCEPT !.writes = @ + 1]

\* A caller starts an operation when it has none in flight.  A run of the
\* interleaved callers starts at most MaxCalls operations; a negative budget
\* is no limit.
Begin(p) ==
    /\ frame[p].pc \in {"idle", "done"}
    /\ budget /= 0
    /\ budget' = IF budget > 0 THEN budget - 1 ELSE budget

\* `server`, the value of persists[name] the operation holds.
Ref(f) == ServerRef(f.persists, f.name)

\* server.login: the entry's own field in the registry object the operation
\* read, or the property of the shared inherited object.
LoginOf(f) ==
    IF Ref(f) = "entry" THEN f.persists[f.name].login ELSE protoLogin

Init ==
    /\ store = EmptyRegistry
    /\ protoLogin = None
    /\ frame = [p \in Procs |-> IdleFrame]
    /\ session = [n \in Names |-> FALSE]
    /\ budget = -1

\* --------------------------------------------------------- the registry

\* getServers: Object.values(persists) mapped to {server, api}; BaseAPI is
\* constructed from the url.
GetServersList(persists) ==
    {[server |-> persists[n], api |-> persists[n].url] : n \in DOMAIN persists}

GetServers(p) ==
    /\ Begin(p)
    /\ frame' = [frame EXCEPT ![p] =
          [Return(NewFrame("getServers", "", store), "value")
              EXCEPT !.retServers = GetServersList(store)]]
    /\ UNCHANGED << store, protoLogin, session >>

\* addServer's test persists[name]===undefined
AddServerFree(persists, name) == ServerRef(persists, name) = "undefined"

\* persists[name] = { name, url }
AddServerPersists(persists, name, url) ==
    [n \in DOMAIN persists \cup {name} |->
        IF n = name THEN Entry(name, url) ELSE persists[n]]

AddServer(p, name, url) ==
    /\ Begin(p)
    /\ LET f == [NewFrame("addServer", name, store) EXCEPT !.url = url]
       IN  IF AddServerFree(store, name)
           THEN /\ store' = AddServerPersists(store, name, url)
                /\ frame' = [frame EXCEPT ![p] = Return(Wrote(f), "true")]
                /\ session' = [session EXCEPT ![name] = FALSE]
           ELSE /\ frame' = [frame EXCEPT ![p] = Return(f, "false")]
                /\ UNCHANGED << store, session >>
    /\ UNCHANGED protoLogin

\* removeServer's test persists[name]!==undefined
RemoveServerFound(persists, name) == ServerRef(persists, name) /= "undefined"

\* delete persists[name]: removes an own key, leaves inherited ones
RemoveServerPersists(persists, name) ==
    [n \in DOMAIN persists \ {name} |-> persists[n]]

RemoveServer(p, name) ==
    /\ Begin(p)
    /\ LET f == NewFrame("removeServer", name, store)
       IN  IF RemoveServerFound(store, name)
           THEN /\ store' = RemoveServerPersists(store, name)
                /\ frame' = [frame EXCEPT ![p] = Return(Wrote(f), "true")]
           ELSE /\ frame' = [frame EXCEPT ![p] = Return(f, "false")]
                /\ UNCHANGED store
    /\ UNCHANGED << protoLogin, session >>

\* -------------------------------------------------------------- sessions

\* logout forgetting the entry instead of its login
SetLoginOrForget(persists, name, login) ==
    IF login = None
    THEN [n \in DOMAIN persists \ {name} |-> persists[n]]
    ELSE [persists EXCEPT ![name].login = login]

\* server.login = <login> (or delete server.login, with None) on the entry
\* of the registry object the operation read
SetLogin(persists, name, login) == [persists EXCEPT ![name].login = login]

\* The mutation of server.login followed by globalState.update(persists):
\* the registry object read at the start of the operation is written back
\* whole.  When `server` is the inherited object the mutation lands on that
\* shared object and the registry object is written back as it was read.
WriteBack(f, login) ==
    IF Ref(f) = "entry"
    THEN /\ store' = SetLogin(f.persists, f.name, login)
         /\ UNCHANGED protoLogin
    ELSE /\ store' = f.persists
         /\ protoLogin' = login

\* auth.cookies ? api.cookiesLogin(auth.cookies) : api.passportLogin(email, password)
LoginApi(auth) ==
    IF Truthy(auth.cookies) THEN "cookiesLogin" ELSE "passportLogin"

\* the login test reduced to res.type==='success'
LoginAcceptedByType(res) == res.type = "success"

\* res.type==='success' && res.identity!==undefined && res.message!==undefined
LoginAccepted(res) ==
    /\ res.type = "success"
    /\ res.identity /= Undefined
    /\ res.message /= Undefined

\* { userId: res.message, username: auth.email, identity: res.identity }
LoginSession(res, auth) ==
    Session(res.message, auth.email, res.identity, None)

\* loginServer without the test of server.login
LoginStartUnguarded(f) ==
    IF Ref(f) = "undefined" THEN Throw(f)
    ELSE Await(f, "await", LoginApi(f.auth), Undefined)

\* loginServer up to its await: with a login already there it returns false.
LoginStart(f) ==
    IF Ref(f) = "undefined" THEN Throw(f)
    ELSE IF LoginOf(f) = None
         THEN Await(f, "await", LoginApi(f.auth), Undefined)
         ELSE Return(f, "false")

LoginCall(p, name, auth) ==
    /\ Begin(p)
    /\ frame' = [frame EXCEPT ![p] =
          LoginStart([NewFrame("loginServer", name, store) EXCEPT !.auth = auth])]
    /\ UNCHANGED << store, protoLogin, session >>

\* loginServer reading the store again after its await and giving way to a
\* login that is there by then
LoginReturnRechecking(p, res) ==
    /\ UNCHANGED budget
    /\ frame[p].op = "loginServer" /\ frame[p].pc = "await"
    /\ LET f == Resume(frame[p], res)
       IN  IF /\ LoginAccepted(res)
              /\ ~(f.name \in DOMAIN store /\ store[f.name].login /= None)
           THEN /\ WriteBack(f, Some(LoginSession(res, f.auth)))
                /\ frame' = [frame EXCEPT ![p] = Return(Wrote(f), "true")]
                /\ session' = [session EXCEPT ![f.name] = TRUE]
           ELSE /\ frame' = [frame EXCEPT ![p] =
                                Return(ShowIfMessage(f, res), "false")]
                /\ UNCHANGED << store, protoLogin, session >>

LoginReturn(p, res) ==
    /\ UNCHANGED budget
    /\ frame[p].op = "loginServer" /\ frame[p].pc = "await"
    /\ LET f == Resume(frame[p], res)
       IN  IF LoginAccepted(res)
           THEN /\ WriteBack(f, Some(LoginSession(res, f.auth)))
                /\ frame' = [frame EXCEPT ![p] = Return(Wrote(f), "true")]
                /\ session' = [session EXCEPT ![f.name] = TRUE]
           ELSE /\ frame' = [frame EXCEPT ![p] =
                                Return(ShowIfMessage(f, res), "false")]
                /\ UNCHANGED << store, protoLogin, session >>

\* logoutServer up to its await: without a login it returns false.
LogoutStart(f) ==
    IF Ref(f) = "undefined" THEN Throw(f)
    ELSE IF LoginOf(f) /= None
         THEN Await(f, "await", "logout", Val(LoginOf(f)).identity)
         ELSE Return(f, "false")

LogoutCall(p, name) ==
    /\ Begin(p)
    /\ frame' = [frame EXCEPT ![p] =
          LogoutStart(NewFrame("logoutServer", name, store))]
    /\ UNCHANGED << store, protoLogin, session >>

\* logoutServer clearing the login only when api.logout succeeded
LogoutReturnOnSuccess(p, res) ==
    /\ UNCHANGED budget
    /\ frame[p].op = "logoutServer" /\ frame[p].pc = "await"
    /\ LET f == Resume(frame[p], res)
       IN  IF res.type = "success"
           THEN /\ WriteBack(f, None)
                /\ frame' = [frame EXCEPT ![p] = Return(Wrote(f), "true")]
                /\ session' = [session EXCEPT ![f.name] = FALSE]
           ELSE /\ frame' = [frame EXCEPT ![p] = Return(f, "false")]
                /\ UNCHANGED << store, protoLogin, session >>

\* The result of api.logout is not looked at.
LogoutReturn(p, res) ==
    /\ UNCHANGED budget
    /\ frame[p].op = "logoutServer" /\ frame[p].pc = "await"
    /\ LET f == Resume(frame[p], res)
       IN  /\ WriteBack(f, None)
           /\ frame' = [frame EXCEPT ![p] = Return(Wrote(f), "true")]
           /\ session' = [session EXCEPT ![f.name] = FALSE]

\* authenticate is synchronous: it returns a settled promise.
\* authenticate resolving with whatever server.login?.identity is
AuthenticateAlwaysResolves(f) ==
    IF Ref(f) = "undefined" THEN Throw(f)
    ELSE [Return(f, "resolved") EXCEPT !.retVal =
             IF LoginOf(f) /= None THEN Val(LoginOf(f)).identity ELSE Undefined]

\* authenticate: a resolved promise with a login, a rejected one without.
AuthenticateResult(f) ==
    IF Ref(f) = "undefined" THEN Throw(f)
    ELSE IF LoginOf(f) /= None
         THEN [Return(f, "resolved") EXCEPT !.retVal = Val(LoginOf(f)).identity]
         ELSE Return(f, "rejected")

Authenticate(p, name) ==
    /\ Begin(p)
    /\ frame' = [frame EXCEPT ![p] =
          AuthenticateResult(NewFrame("authenticate", name, store))]
    /\ UNCHANGED << store, protoLogin, session >>

\* ------------------------------------------------------ project catalog

\* the listing stored as the remote sent it
StampNothing(projects, userId) == projects

\* Object.values(res.projects).forEach(project => project.userId = userId)
Stamp(projects, userId) ==
    [i \in 1..Len(projects) |-> [projects[i] EXCEPT !.userId = userId]]

\* res.type==='success' && res.projects!==undefined
ListAccepted(res) == res.type = "success" /\ IsSome(res.projects)

\* the fallback taken whenever the first listing brought no project list
NeedsFallbackOrNoList(res) == ~ListAccepted(res)

\* if (res.type!=='success'): fall back to userProjectsJson
NeedsFallback(res) == res.type /= "success"

\* fetchServerProjects up to its first await: without a login it returns [].
FetchStart(f) ==
    IF Ref(f) = "undefined" THEN Throw(f)
    ELSE IF LoginOf(f) /= None
         THEN Await(f, "await1", "getProjectsJson", Val(LoginOf(f)).identity)
         ELSE Return(f, "projects")

FetchCall(p, name) ==
    /\ Begin(p)
    /\ frame' = [frame EXCEPT ![p] =
          FetchStart(NewFrame("fetchServerProjects", name, store))]
    /\ UNCHANGED << store, protoLogin, session >>

\* Lines 118-130, with res the result of the last listing call.
FetchFinish(p, f, res) ==
    IF ListAccepted(res)
    THEN IF LoginOf(f) = None
         THEN /\ frame' = [frame EXCEPT ![p] = Throw(f)]
              /\ UNCHANGED << store, protoLogin >>
         ELSE LET login == Val(LoginOf(f))
                  projects == Stamp(Val(res.projects), login.userId)
              IN  /\ WriteBack(f, Some([login EXCEPT !.projects = Some(projects)]))
                  /\ frame' = [frame EXCEPT ![p] =
                        [Return(Wrote(f), "projects")
                            EXCEPT !.retProjects = projects]]
    ELSE /\ frame' = [frame EXCEPT ![p] =
                         Return(ShowIfMessage(f, res), "projects")]
         /\ UNCHANGED << store, protoLogin >>

\* the first listing's message shown before the fallback is tried
FetchPrimaryReturnShowing(p, res) ==
    /\ UNCHANGED budget
    /\ frame[p].op = "fetchServerProjects" /\ frame[p].pc = "await1"
    /\ LET f == Resume(frame[p], res)
       IN  IF NeedsFallback(res)
           THEN /\ frame' = [frame EXCEPT ![p] =
                      IF LoginOf(f) = None THEN Throw(f)
                      ELSE Await(ShowIfMessage(f, res), "await2",
                                 "userProjectsJson", Val(LoginOf(f)).identity)]
                /\ UNCHANGED << store, protoLogin >>
           ELSE FetchFinish(p, f, res)
    /\ UNCHANGED session

FetchPrimaryReturn(p, res) ==
    /\ UNCHANGED budget
    /\ frame[p].op = "fetchServerProjects" /\ frame[p].pc = "await1"
    /\ LET f == Resume(frame[p], res)
       IN  IF NeedsFallback(res)
           THEN /\ frame' = [frame EXCEPT ![p] =
                      IF LoginOf(f) = None THEN Throw(f)
                      ELSE Await(f, "await2", "userProjectsJson",
                                 Val(LoginOf(f)).identity)]
                /\ UNCHANGED << store, protoLogin >>
           ELSE FetchFinish(p, f, res)
    /\ UNCHANGED session

FetchSecondaryReturn(p, res) ==
    /\ UNCHANGED budget
    /\ frame[p].op = "fetchServerProjects" /\ frame[p].pc = "await2"
    /\ FetchFinish(p, Resume(frame[p], res), res)
    /\ UNCHANGED session

\* ----------------------------------------------- operations on a project

\* The shared shape of the operations gated on server.login: read the
\* registry, and with a login issue one remote call; without one return the
\* operation's sentinel.
\* the remote call made without the test of server.login
GatedStartUnguarded(f, api, sentinel) ==
    IF Ref(f) = "undefined" THEN Throw(f)
    ELSE Await(f, "await", api,
               IF LoginOf(f) /= None THEN Val(LoginOf(f)).identity
               ELSE Undefined)

GatedStart(f, api, sentinel) ==
    IF Ref(f) = "undefined" THEN Throw(f)
    ELSE IF LoginOf(f) /= None
         THEN Await(f, "await", api, Val(LoginOf(f)).identity)
         ELSE Return(f, sentinel)

GatedCall(p, op, api, name, sentinel) ==
    /\ Begin(p)
    /\ frame' = [frame EXCEPT ![p] =
          GatedStart(NewFrame(op, name, store), api, sentinel)]
    /\ UNCHANGED << store, protoLogin, session >>

\* res.type==='success' && res.<payload>!==undefined: return the payload;
\* otherwise show the message (when `shows`) and return the sentinel.
PayloadReturn(f, res, sentinel, shows) ==
    IF res.type = "success" /\ res.payload /= Undefined
    THEN [Return(f, "value") EXCEPT !.retVal = res.payload]
    ELSE Return(IF shows THEN ShowIfMessage(f, res) ELSE f, sentinel)

\* delete, rename and move returning false without a message
FlagReturnSilent(f, res) ==
    IF res.type = "success" THEN Return(f, "true") ELSE Return(f, "false")

\* res.type==='success': return true; otherwise show the message, return false.
FlagReturn(f, res) ==
    IF res.type = "success"
    THEN Return(f, "true")
    ELSE Return(ShowIfMessage(f, res), "false")

\* an operation on the project dropping the cached project list on return
GatedReturnDropsCache(p, op, next) ==
    /\ UNCHANGED budget
    /\ frame[p].op = op /\ frame[p].pc = "await"
    /\ frame' = [frame EXCEPT ![p] = next]
    /\ IF Ref(frame[p]) = "entry" /\ LoginOf(frame[p]) /= None
       THEN store' = SetLogin(frame[p].persists, frame[p].name,
                        Some([Val(LoginOf(frame[p])) EXCEPT !.projects = None]))
       ELSE UNCHANGED store
    /\ UNCHANGED << protoLogin, session >>

GatedReturn(p, op, next) ==
    /\ UNCHANGED budget
    /\ frame[p].op = op /\ frame[p].pc = "await"
    /\ frame' = [frame EXCEPT ![p] = next]
    /\ UNCHANGED << store, protoLogin, session >>

\* getProjectFile returns new Uint8Array(0) ("empty") and shows no message.
GetFileCall(p, name) ==
    GatedCall(p, "getProjectFile", "getFile", name, "empty")
GetFileReturn(p, res) ==
    GatedReturn(p, "getProjectFile",
                PayloadReturn(Resume(frame[p], res), res, "empty", FALSE))

UploadCall(p, name) ==
    GatedCall(p, "uploadProjectFile", "uploadFile", name, "undefined")
UploadReturn(p, res) ==
    GatedReturn(p, "uploadProjectFile",
                PayloadReturn(Resume(frame[p], res), res, "undefined", TRUE))

AddFolderCall(p, name) ==
    GatedCall(p, "addProjectFolder", "addFolder", name, "undefined")
AddFolderReturn(p, res) ==
    GatedReturn(p, "addProjectFolder",
                PayloadReturn(Resume(frame[p], res), res, "undefined", TRUE))

DeleteCall(p, name) ==
    GatedCall(p, "deleteProjectEntity", "deleteEntity", name, "false")
DeleteReturn(p, res) ==
    GatedReturn(p, "deleteProjectEntity", FlagReturn(Resume(frame[p], res), res))

RenameCall(p, name) ==
    GatedCall(p, "renameProjectEntity", "renameEntity", name, "false")
RenameReturn(p, res) ==
    GatedReturn(p, "renameProjectEntity", FlagReturn(Resume(frame[p], res), res))

MoveCall(p, name) ==
    GatedCall(p, "moveProjectEntity", "moveEntity", name, "false")
MoveReturn(p, res) ==
    GatedReturn(p, "moveProjectEntity", FlagReturn(Resume(frame[p], res), res))

\* ---------------------------------------------------------------- compile

\* res.type==='success': return res.compile (which may be undefined);
\* otherwise show the message and return undefined.
CompileResult(f, res) ==
    IF res.type = "success"
    THEN IF res.payload /= Undefined
         THEN [Return(f, "value") EXCEPT !.retVal = res.payload]
         ELSE Return(f, "undefined")
    ELSE Return(ShowIfMessage(f, res), "undefined")

\* deleteAuxFiles called without await: compile is called right after it
CompileFirstUnawaited(f) ==
    IF f.flag
    THEN Await(Await(f, "await1", "deleteAuxFiles", Val(LoginOf(f)).identity),
               "await2", "compile", Val(LoginOf(f)).identity)
    ELSE Await(f, "await2", "compile", Val(LoginOf(f)).identity)

\* The first remote call of compileProjectEntity.
CompileFirst(f) ==
    IF f.flag
    THEN Await(f, "await1", "deleteAuxFiles", Val(LoginOf(f)).identity)
    ELSE Await(f, "await2", "compile", Val(LoginOf(f)).identity)

CompileStart(f) ==
    IF Ref(f) = "undefined" THEN Throw(f)
    ELSE IF LoginOf(f) /= None
         THEN CompileFirst(f)
         ELSE Return(f, "undefined")

CompileCall(p, name, needCacheClearFirst) ==
    /\ Begin(p)
    /\ frame' = [frame EXCEPT ![p] =
          CompileStart([NewFrame("compileProjectEntity", name, store)
                           EXCEPT !.flag = needCacheClearFirst])]
    /\ UNCHANGED << store, protoLogin, session >>

\* deleteAuxFiles has returned; its result is not looked at.
CompileAuxReturn(p, res) ==
    /\ UNCHANGED budget
    /\ frame[p].op = "compileProjectEntity" /\ frame[p].pc = "await1"
    /\ LET f == Resume(frame[p], res)
       IN  frame' = [frame EXCEPT ![p] =
              IF LoginOf(f) = None THEN Throw(f)
              ELSE Await(f, "await2", "compile", Val(LoginOf(f)).identity)]
    /\ UNCHANGED << store, protoLogin, session >>

CompileReturn(p, res) ==
    /\ UNCHANGED budget
    /\ frame[p].op = "compileProjectEntity" /\ frame[p].pc = "await2"
    /\ frame' = [frame EXCEPT ![p] = CompileResult(Resume(frame[p], res), res)]
    /\ UNCHANGED << store, protoLogin, session >>

\* ------------------------------------------------------------------- sync

\* syncCode / syncPdf: `await this.authenticate(...)`, then the proxy call.
\* A rejected authenticate leaves the operation rejected.
SyncCall(p, op, api, name) ==
    /\ Begin(p)
    /\ frame' = [frame EXCEPT ![p] =
          GatedStart(NewFrame(op, name, store), api, "rejected")]
    /\ UNCHANGED << store, protoLogin, session >>

SyncCodeCall(p, name) == SyncCall(p, "syncCode", "proxySyncCode", name)
SyncCodeReturn(p, res) ==
    GatedReturn(p, "syncCode", CompileResult(Resume(frame[p], res), res))

SyncPdfCall(p, name) == SyncCall(p, "syncPdf", "proxySyncPdf", name)
SyncPdfReturn(p, res) ==
    GatedReturn(p, "syncPdf", CompileResult(Resume(frame[p], res), res))

\* initSocketIOAPI: synchronous; with a login it returns {api, socket}, the
\* socket bound to the identity; without one it returns undefined.
InitSocketResult(f) ==
    IF Ref(f) = "undefined" THEN Throw(f)
    ELSE IF LoginOf(f) /= None
         THEN [Return(f, "value") EXCEPT !.retVal = Val(LoginOf(f)).identity]
         ELSE Return(f, "undefined")

InitSocketIOAPI(p, name) ==
    /\ Begin(p)
    /\ frame' = [frame EXCEPT ![p] =
          InitSocketResult(NewFrame("initSocketIOAPI", name, store))]
    /\ UNCHANGED << store, protoLogin, session >>

\* ------------------------------------------------------- specifications

\* The operations on the registry itself, by caller p.
RegistryNext(p, names) ==
    \/ GetServers(p)
    \/ \E n \in names, u \in Urls : AddServer(p, n, u)
    \/ \E n \in names : RemoveServer(p, n)

\* Login, logout and authenticate, by caller p on the names given.
SessionNext(p, names) ==
    \/ \E n \in names, a \in Auths : LoginCall(p, n, a)
    \/ \E r \in LoginResults : LoginReturn(p, r)
    \/ \E n \in names : LogoutCall(p, n)
    \/ \E r \in PlainResults : LogoutReturn(p, r)

\* The project catalog.  The two listings send different messages.
CatalogNext(p, names) ==
    \/ \E n \in names : FetchCall(p, n)
    \/ \E r \in ListResults("m1") : FetchPrimaryReturn(p, r)
    \/ \E r \in ListResults("m2") : FetchSecondaryReturn(p, r)

\* The operations on the remote file tree and the compiler.
ProjectNext(p, names) ==
    \/ \E n \in names : UploadCall(p, n)
    \/ \E r \in PayloadResults : UploadReturn(p, r)
    \/ \E n \in names : AddFolderCall(p, n)
    \/ \E r \in PayloadResults : AddFolderReturn(p, r)
    \/ \E n \in names : DeleteCall(p, n)
    \/ \E r \in PayloadResults : DeleteReturn(p, r)
    \/ \E n \in names : RenameCall(p, n)
    \/ \E r \in PayloadResults : RenameReturn(p, r)
    \/ \E n \in names : MoveCall(p, n)
    \/ \E r \in PayloadResults : MoveReturn(p, r)
    \/ \E n \in names, c \in BOOLEAN : CompileCall(p, n, c)
    \/ \E r \in PlainResults : CompileAuxReturn(p, r)
    \/ \E r \in PayloadResults : CompileReturn(p, r)

\* One caller: every operation completes before the next one is called.
Caller == 1

\* Registry, sessions and catalog, one operation at a time.  Servers are
\* added and removed under every name; sessions are opened on the own names.
Next ==
    \/ RegistryNext(Caller, Names)
    \/ SessionNext(Caller, OwnNames)
    \/ \E n \in Names : Authenticate(Caller, n)
    \/ CatalogNext(Caller, OwnNames)

Spec == Init /\ [][Next]_vars

\* Sessions and the operations gated on them, one operation at a time.
NextProject ==
    \/ \E n \in OwnNames, u \in Urls : AddServer(Caller, n, u)
    \/ SessionNext(Caller, OwnNames)
    \/ ProjectNext(Caller, OwnNames)

SpecProject == Init /\ [][NextProject]_vars

\* Two callers whose operations interleave at their awaits.  The remote
\* answers are one success and one failure per call.
LoginAnswers ==
    {Result("success", "m1", "id1", None, Undefined),
     Result("error", Undefined, Undefined, None, Undefined)}
LogoutAnswers == {Result("success", Undefined, Undefined, None, Undefined)}
ListAnswers ==
    {Result("success", Undefined, Undefined, Some(Payload(1)), Undefined),
     Result("error", Undefined, Undefined, None, Undefined)}
ConcAuths == {Auth("c1", Undefined, Undefined), Auth(Undefined, "e1", "pw")}

ConcNext(names) ==
    \E p \in Procs :
        \/ \E n \in names : AddServer(p, n, "https://lab.example")
        \/ \E n \in names : RemoveServer(p, n)
        \/ \E n \in names, a \in ConcAuths : LoginCall(p, n, a)
        \/ \E r \in LoginAnswers : LoginReturn(p, r)
        \/ \E n \in names : LogoutCall(p, n)
        \/ \E r \in LogoutAnswers : LogoutReturn(p, r)
        \/ \E n \in names : FetchCall(p, n)
        \/ \E r \in ListAnswers : FetchPrimaryReturn(p, r)
        \/ \E r \in ListAnswers : FetchSecondaryReturn(p, r)

\* The interleaved callers start at most MaxCalls operations.
InitConc ==
    /\ store = EmptyRegistry
    /\ protoLogin = None
    /\ frame = [p \in Procs |-> IdleFrame]
    /\ session = [n \in Names |-> FALSE]
    /\ budget = MaxCalls

\* The callers work on both own names.
NextConc == ConcNext(OwnNames)

SpecConc == InitConc /\ [][NextConc]_vars

\* The callers work on one and the same server.
NextEntry == ConcNext({"lab"})

SpecEntry == InitConc /\ [][NextEntry]_vars

\* The operations that read a project: file download, sync, the socket.
ReadNext(p, names) ==
    \/ \E n \in names : GetFileCall(p, n)
    \/ \E r \in PayloadResults : GetFileReturn(p, r)
    \/ \E n \in names : SyncCodeCall(p, n)
    \/ \E r \in PayloadResults : SyncCodeReturn(p, r)
    \/ \E n \in names : SyncPdfCall(p, n)
    \/ \E r \in PayloadResults : SyncPdfReturn(p, r)
    \/ \E n \in names : InitSocketIOAPI(p, n)

\* Every operation of the manager, one at a time, on both own names;
\* sessions are opened on "lab".
NextAll ==
    \/ RegistryNext(Caller, OwnNames)
    \/ SessionNext(Caller, {"lab"})
    \/ \E n \in OwnNames : Authenticate(Caller, n)
    \/ CatalogNext(Caller, {"lab"})
    \/ ProjectNext(Caller, OwnNames)
    \/ ReadNext(Caller, OwnNames)

SpecAll == Init /\ [][NextAll]_vars

\* --------------------------------------------------------------- claims
\* The sequential specifications have one caller; the registry it read at
\* the start of its operation (persists) is the registry before the
\* operation, and store is the registry after it.

Op == frame[Caller]
Finished(op) == Op.op = op /\ Op.pc = "done"
Before == Op.persists
OnEntry == Op.name \in DOMAIN Before
WasLoggedIn == OnEntry /\ IsSome(Before[Op.name].login)
WasLoggedOut == OnEntry /\ Before[Op.name].login = None
ApisCalled == [i \in 1..Len(Op.calls) |-> Op.calls[i].api]

\* Every entry but the one named is in the registry as it was before.
OthersUnchanged ==
    /\ DOMAIN store \ {Op.name} = DOMAIN Before \ {Op.name}
    /\ \A n \in DOMAIN Before \ {Op.name} : store[n] = Before[n]

\* C1: addServer(name, url) with name a key of the registry returns false
\* and leaves the registry as it was; with name not a key it returns true,
\* and getServers then lists exactly one entry of that name, with that url
\* and no login, every other entry unchanged.
C1_AddServer ==
    Finished("addServer") =>
        IF Op.name \in DOMAIN Before
        THEN Op.ret = "false" /\ store = Before
        ELSE /\ Op.ret = "true"
             /\ Cardinality({e \in GetServersList(store) :
                                e.server.name = Op.name}) = 1
             /\ \A e \in GetServersList(store) :
                    e.server.name = Op.name =>
                        e.server.url = Op.url /\ e.server.login = None
             /\ OthersUnchanged

\* C2: removeServer(name) with name not in the registry returns false and
\* leaves the registry as it was; with name in the registry it returns true,
\* the entry (its login and cached projects with it) is gone, no remote call
\* was made, and every other entry is unchanged.
C2_RemoveServer ==
    Finished("removeServer") =>
        IF Op.name \notin DOMAIN Before
        THEN Op.ret = "false" /\ store = Before
        ELSE /\ Op.ret = "true"
             /\ Op.name \notin DOMAIN store
             /\ Op.calls = << >>
             /\ OthersUnchanged

\* C3: loginServer on an entry that has a login returns false, calls neither
\* cookiesLogin nor passportLogin, and leaves the registry as it was.
C3_LoginWhenLoggedIn ==
    Op.op = "loginServer" /\ WasLoggedIn =>
        /\ Op.pc = "done"
        /\ Op.ret = "false"
        /\ Op.calls = << >>
        /\ Op.writes = 0
        /\ store = Before

C3_Witness ==
    /\ Finished("loginServer") /\ WasLoggedIn
    /\ IsSome(Before[Op.name].login[1].projects)
    /\ Op.ret = "false"

\* The single remote result of a login, logout or one-call operation.
Res == Op.results[1]

\* C4 as stated: on a logged-out entry every login result of type success
\* logs the entry in, with the user id, a username the caller supplied (on
\* the cookie path as on the email path) and the identity, writes the
\* registry and returns true.
C4_AnySuccessLogsIn ==
    Finished("loginServer") /\ WasLoggedOut /\ Len(Op.results) = 1
        /\ Res.type = "success" =>
            /\ Op.ret = "true"
            /\ Op.writes = 1
            /\ IsSome(store[Op.name].login)
            /\ LET login == Val(store[Op.name].login)
               IN  /\ login.userId /= Undefined
                   /\ login.identity = Res.identity
                   /\ login.identity /= Undefined
                   /\ login.username /= Undefined
                   /\ login.username \in {Op.auth.cookies, Op.auth.email}

\* C4, amended: on a logged-out entry a login result of type success that
\* carries an identity and a message logs the entry in, with the message as
\* userId, auth.email as username (undefined when the caller gave cookies
\* only) and the identity, writes the registry once and returns true; every
\* other result, a success without identity or message included, leaves the
\* registry as it was and returns false.
C4_LoginSuccess ==
    Finished("loginServer") /\ WasLoggedOut /\ Len(Op.results) = 1 =>
        IF Res.type = "success" /\ Res.identity /= Undefined
                                /\ Res.message /= Undefined
        THEN /\ Op.ret = "true"
             /\ Op.writes = 1
             /\ store = [Before EXCEPT ![Op.name].login =
                   Some([userId |-> Res.message, username |-> Op.auth.email,
                         identity |-> Res.identity, projects |-> None])]
        ELSE /\ Op.ret = "false"
             /\ Op.writes = 0
             /\ store = Before

C4_Witness ==
    /\ Finished("loginServer") /\ WasLoggedOut /\ Op.ret = "true"
    /\ Op.calls = << ApiCall("cookiesLogin", Undefined) >>
    /\ Val(store[Op.name].login).username = Undefined
    /\ Val(store[Op.name].login).userId = "m2"
    /\ Val(store[Op.name].login).identity = "id2"

\* C5: logoutServer on an entry without a login returns false, makes no
\* remote call and does not touch the registry; on an entry with a login it
\* calls logout once, with the stored identity, and whatever that call
\* returns the entry has no login in the registry afterwards, every other
\* entry is as it was, and the operation returns true.
C5_Logout ==
    Op.op = "logoutServer" /\ OnEntry =>
        IF Before[Op.name].login = None
        THEN /\ Op.pc = "done" /\ Op.ret = "false"
             /\ Op.calls = << >>
             /\ Op.writes = 0
             /\ store = Before
        ELSE /\ Op.calls =
                   << ApiCall("logout", Val(Before[Op.name].login).identity) >>
             /\ Op.pc = "done" =>
                   /\ Len(Op.results) = 1
                   /\ Op.ret = "true"
                   /\ store[Op.name].login = None
                   /\ store = [Before EXCEPT ![Op.name].login = None]

C5_Witness ==
    /\ Finished("logoutServer") /\ WasLoggedIn
    /\ Res.type = "error" /\ Res.message = "m1"
    /\ store[Op.name].login = None
    /\ Op.ret = "true"

\* C6: authenticate on an entry resolves, with the stored identity, exactly
\* when the entry has a login, and rejects otherwise; it makes no remote
\* call and does not write the registry.
C6_Authenticate ==
    Finished("authenticate") /\ OnEntry =>
        /\ IF IsSome(Before[Op.name].login)
           THEN /\ Op.ret = "resolved"
                /\ Op.retVal = Val(Before[Op.name].login).identity
           ELSE Op.ret = "rejected"
        /\ Op.calls = << >>
        /\ Op.writes = 0
        /\ store = Before

C6_Witness ==
    /\ Finished("authenticate") /\ WasLoggedOut
    /\ Op.ret = "rejected"
    /\ \E n \in DOMAIN store : IsSome(store[n].login)

\* The login the entry had before the operation.
LoginBefore == Val(Before[Op.name].login)

\* ps is the list qs with every userId set to userId.
StampedCopy(ps, qs, userId) ==
    /\ Len(ps) = Len(qs)
    /\ \A i \in 1..Len(qs) :
          /\ ps[i].id = qs[i].id
          /\ ps[i].userId = userId

\* C7: fetchServerProjects on an entry without a login returns [] and makes
\* no remote call.  On an entry with a login: when the primary listing
\* fails and the secondary succeeds with a project list, the result is that
\* list with every userId set to the login's userId, and the same list is
\* the login's cached projects in the registry; when both listings fail the
\* result is [] and the registry, cached projects included, is as before.
C7_Fetch ==
    Finished("fetchServerProjects") /\ OnEntry =>
        /\ Op.ret = "projects"
        /\ WasLoggedOut =>
              /\ Op.retProjects = << >>
              /\ Op.calls = << >>
              /\ store = Before
        /\ WasLoggedIn /\ Len(Op.results) = 2 =>
              /\ Op.results[1].type /= "success"
              /\ ApisCalled = << "getProjectsJson", "userProjectsJson" >>
              /\ Op.results[2].type = "success"
                    /\ IsSome(Op.results[2].projects) =>
                    /\ StampedCopy(Op.retProjects,
                                   Val(Op.results[2].projects),
                                   LoginBefore.userId)
                    /\ store = [Before EXCEPT ![Op.name].login =
                          Some([LoginBefore EXCEPT
                                   !.projects = Some(Op.retProjects)])]
              /\ Op.results[2].type /= "success" =>
                    /\ Op.retProjects = << >>
                    /\ Op.writes = 0
                    /\ store = Before

\* The secondary listing's two projects came back stamped with the user id
\* "m2" and replaced an older cache.
C7_Witness ==
    /\ Finished("fetchServerProjects") /\ WasLoggedIn
    /\ Len(Op.results) = 2
    /\ Op.results[2].type = "success"
    /\ Len(Op.retProjects) = 2
    /\ Op.retProjects[2].userId = "m2"
    /\ IsSome(LoginBefore.projects)
    /\ LoginBefore.projects /= Some(Op.retProjects)
    /\ Val(store[Op.name].login).projects = Some(Op.retProjects)

\* Both listings failed over a cache that was not empty.
C7_WitnessBothFail ==
    /\ Finished("fetchServerProjects") /\ WasLoggedIn
    /\ Len(Op.results) = 2
    /\ Op.results[2].type /= "success"
    /\ IsSome(LoginBefore.projects)
    /\ Len(Val(LoginBefore.projects)) > 0
    /\ store = Before

\* What an entity operation returns when it cannot act.
Sentinel(op) ==
    IF op \in {"uploadProjectFile", "addProjectFolder"}
    THEN "undefined"
    ELSE "false"

EntityOps ==
    {"uploadProjectFile", "addProjectFolder", "deleteProjectEntity",
     "renameProjectEntity", "moveProjectEntity"}

\* C8: uploadProjectFile, addProjectFolder, deleteProjectEntity,
\* renameProjectEntity and moveProjectEntity on an entry without a login
\* return at once, upload and addFolder undefined, the others false, and
\* call the remote client zero times.
C8_EntityOpsLoggedOut ==
    Op.op \in EntityOps /\ WasLoggedOut =>
        /\ Op.pc = "done"
        /\ Op.ret = Sentinel(Op.op)
        /\ Op.calls = << >>
        /\ Op.results = << >>

\* A rename on a logged-out entry while another entry is logged in.
C8_Witness ==
    /\ Finished("renameProjectEntity") /\ WasLoggedOut
    /\ Op.ret = "false"
    /\ \E n \in DOMAIN store : IsSome(store[n].login)

\* C9: compileProjectEntity on an entry with a login and
\* needCacheClearFirst calls deleteAuxFiles, and calls compile, once, only
\* when deleteAuxFiles has returned, whatever it returned; without
\* needCacheClearFirst it calls compile alone; on an entry without a login
\* it calls neither and returns undefined.
C9_Compile ==
    Op.op = "compileProjectEntity" /\ OnEntry =>
        /\ WasLoggedOut =>
              /\ Op.pc = "done" /\ Op.ret = "undefined"
              /\ Op.calls = << >>
        /\ WasLoggedIn =>
              /\ \A i \in 1..Len(Op.calls) :
                    Op.calls[i].identity = LoginBefore.identity
              /\ Op.flag =>
                    /\ Op.pc = "await1" =>
                          /\ ApisCalled = << "deleteAuxFiles" >>
                          /\ Op.results = << >>
                    /\ Op.pc = "await2" =>
                          /\ ApisCalled = << "deleteAuxFiles", "compile" >>
                          /\ Len(Op.results) = 1
                    /\ Op.pc = "done" =>
                          /\ ApisCalled = << "deleteAuxFiles", "compile" >>
                          /\ Len(Op.results) = 2
              /\ ~Op.flag =>
                    /\ ApisCalled = << "compile" >>
                    /\ Op.pc = "done" => Len(Op.results) = 1

\* deleteAuxFiles failed and compile was called all the same.
C9_Witness ==
    /\ Finished("compileProjectEntity") /\ WasLoggedIn /\ Op.flag
    /\ Op.results[1].type = "error"
    /\ ApisCalled = << "deleteAuxFiles", "compile" >>
    /\ Op.ret = "value"

\* C10: under every interleaving of the operations at their awaits, an
\* entry of the registry has a login exactly when a login on it succeeded
\* and no logout on it has completed since (session); a fetch whose listing
\* is in flight while a logout completes does not put the login back.
C10_SessionIffLoggedIn ==
    \A n \in DOMAIN store : IsSome(store[n].login) <=> session[n]

\* C11 as stated, for the operation that follows a login or logout at once:
\* authenticate on an entry resolves exactly when the login or logout that
\* completed last before it was a login that returned true.
C11_LastCompletedDecides ==
    [][(/\ Op.pc = "done"
        /\ Op.op \in {"loginServer", "logoutServer"}
        /\ Op.name \in DOMAIN store
        /\ Op'.op = "authenticate"
        /\ Op'.name = Op.name)
       => (Op'.ret = "resolved"
              <=> (Op.op = "loginServer" /\ Op.ret = "true"))]_vars

\* C11, amended: with one operation at a time, a login that returns true
\* stores the userId the remote produced; every project a fetch returns and
\* every cached project carries the userId of its entry's session; a logout
\* of a logged-in entry leaves the entry registered with its url, without
\* session and cached projects; and authenticate on an entry resolves
\* exactly when the last login or logout on it that returned true was a
\* login (session), a login or logout that returned false changing nothing.
C11_SessionLifecycle ==
    /\ \A n \in DOMAIN store :
           IsSome(store[n].login) /\ IsSome(Val(store[n].login).projects) =>
               \A i \in DOMAIN Val(Val(store[n].login).projects) :
                   Val(Val(store[n].login).projects)[i].userId
                       = Val(store[n].login).userId
    /\ Finished("loginServer") /\ OnEntry /\ Op.ret = "true" =>
           /\ IsSome(store[Op.name].login)
           /\ Val(store[Op.name].login).userId = Res.message
    /\ Finished("loginServer") /\ OnEntry /\ Op.ret = "false" =>
           store = Before
    /\ Finished("fetchServerProjects") /\ WasLoggedIn =>
           /\ Op.name \in DOMAIN store /\ IsSome(store[Op.name].login)
           /\ Val(store[Op.name].login).userId = LoginBefore.userId
           /\ \A i \in DOMAIN Op.retProjects :
                  Op.retProjects[i].userId = LoginBefore.userId
    /\ Finished("logoutServer") /\ OnEntry =>
           IF WasLoggedIn
           THEN /\ Op.ret = "true"
                /\ Op.name \in DOMAIN store
                /\ store[Op.name] = Entry(Op.name, Before[Op.name].url)
           ELSE Op.ret = "false" /\ store = Before
    /\ Finished("authenticate") /\ OnEntry =>
           (Op.ret = "resolved" <=> session[Op.name])

\* A logout has just ended a session that held fetched projects: the entry
\* was added, logged in and fetched before.
C11_Witness ==
    /\ Finished("logoutServer") /\ WasLoggedIn
    /\ IsSome(LoginBefore.projects)
    /\ Val(LoginBefore.projects) /= << >>
    /\ Op.ret = "true"
    /\ store[Op.name].login = None
    /\ ~session[Op.name]

\* The operations that take a server name and look its entry up.
NameOps ==
    {"loginServer", "logoutServer", "fetchServerProjects", "authenticate",
     "getProjectFile", "compileProjectEntity", "syncCode", "syncPdf",
     "initSocketIOAPI"} \cup EntityOps

\* The value by which an operation reports that it could not act.
FailureValue(op) ==
    CASE op \in {"loginServer", "logoutServer"} -> "false"
      [] op = "fetchServerProjects" -> "projects"
      [] op \in {"authenticate", "syncCode", "syncPdf"} -> "rejected"
      [] op = "getProjectFile" -> "empty"
      [] op \in {"compileProjectEntity", "initSocketIOAPI"} -> "undefined"
      [] OTHER -> Sentinel(op)

\* C12: an operation that takes a server name, called with a name that is
\* not a key of the registry, completes with its failure value (false, the
\* empty list, the empty buffer, undefined, or for authenticate and sync
\* the not-authenticated rejection) and raises no error; it makes no remote
\* call and no registry write.
C12_AbsentName ==
    Op.op \in NameOps /\ Op.name \notin DOMAIN Before =>
        /\ Op.pc = "done"
        /\ Op.ret /= "TypeError"
        /\ Op.ret = FailureValue(Op.op)
        /\ Op.retProjects = << >>
        /\ Op.calls = << >>
        /\ Op.writes = 0
        /\ store = Before

\* C13: within one fetchServerProjects on an entry with a login,
\* getProjectsJson is the first remote call and is called once;
\* userProjectsJson is called at most once, only when getProjectsJson has
\* returned, and exactly when its result is not of type success.  A first
\* result of type success without a project list is followed by no second
\* call: the operation returns the empty list and leaves the registry, the
\* cached projects with it, as it was.
C13_ListingOrder ==
    Op.op = "fetchServerProjects" /\ WasLoggedIn =>
        /\ Len(Op.calls) \in {1, 2}
        /\ ApisCalled[1] = "getProjectsJson"
        /\ Len(Op.calls) = 2 => ApisCalled[2] = "userProjectsJson"
        /\ Op.pc = "await1" <=> Op.results = << >>
        /\ Op.pc = "await2" <=> Len(Op.calls) = 2 /\ Len(Op.results) = 1
        /\ Op.pc = "done" <=> Op.results /= << >> /\ Len(Op.results) = Len(Op.calls)
        /\ Op.results /= << >> =>
               (Len(Op.calls) = 2 <=> Op.results[1].type /= "success")
        /\ Op.pc = "done" /\ Op.results[1].type = "success"
                          /\ Op.results[1].projects = None =>
               /\ Len(Op.calls) = 1
               /\ Op.ret = "projects" /\ Op.retProjects = << >>
               /\ Op.writes = 0
               /\ store = Before

\* The first listing succeeded without a project list while the entry held
\* cached projects.
C13_Witness ==
    /\ Finished("fetchServerProjects") /\ WasLoggedIn
    /\ IsSome(LoginBefore.projects) /\ Val(LoginBefore.projects) /= << >>
    /\ Op.results[1].type = "success" /\ Op.results[1].projects = None
    /\ ApisCalled = << "getProjectsJson" >>
    /\ store = Before

\* C14: every loginServer on an entry without a login makes one remote
\* call, cookiesLogin or passportLogin; when its result is not of type
\* success the entry stays without login, the registry is not written and
\* is as it was, the operation returns false, and the error message is
\* shown once, with the result's message, when the result carries one, and
\* not at all when it carries none.
C14_LoginFailure ==
    /\ Op.op = "loginServer" /\ WasLoggedOut =>
           /\ Len(Op.calls) = 1
           /\ ApisCalled[1] \in {"cookiesLogin", "passportLogin"}
           /\ ApisCalled[1] = "cookiesLogin" <=> Op.auth.cookies /= Undefined
    /\ Finished("loginServer") /\ WasLoggedOut /\ Res.type /= "success" =>
           /\ Op.ret = "false"
           /\ Op.writes = 0
           /\ store = Before
           /\ store[Op.name].login = None
           /\ Op.shown = IF Res.message /= Undefined
                         THEN << Res.message >> ELSE << >>

\* A login was refused with a message, and the message was shown.
C14_Witness ==
    /\ Finished("loginServer") /\ WasLoggedOut
    /\ Res.type = "error" /\ Res.message = "m2"
    /\ Op.shown = << "m2" >>
    /\ Op.ret = "false"

\* A login was refused without a message, and nothing was shown.
C14_WitnessNoMessage ==
    /\ Finished("loginServer") /\ WasLoggedOut
    /\ Res.type = "error" /\ Res.message = Undefined
    /\ Op.shown = << >>

\* C15: when getProjectsJson and userProjectsJson both return a result that
\* is not of type success, the error message is shown at most once: the
\* second result's message when it carries one, nothing when it carries
\* none.  The first result's message is not shown, neither while the second
\* call is awaited nor after it.
C15_BothListingsFail ==
    /\ Op.op = "fetchServerProjects" /\ Op.pc = "await2" => Op.shown = << >>
    /\ Finished("fetchServerProjects") /\ Len(Op.results) = 2
           /\ Op.results[2].type /= "success" =>
           /\ Op.results[1].type /= "success"
           /\ Len(Op.shown) <= 1
           /\ Op.shown = IF Op.results[2].message /= Undefined
                         THEN << Op.results[2].message >> ELSE << >>
           /\ \A i \in DOMAIN Op.shown :
                  Op.results[1].message /= Undefined =>
                      Op.shown[i] /= Op.results[1].message
           /\ Op.ret = "projects" /\ Op.retProjects = << >>

\* Both listings failed with a message of their own; the second was shown.
C15_Witness ==
    /\ Finished("fetchServerProjects") /\ Len(Op.results) = 2
    /\ Op.results[1].type = "error" /\ Op.results[1].message = "m1"
    /\ Op.results[2].type = "error" /\ Op.results[2].message = "m2"
    /\ Op.shown = << "m2" >>

\* Both listings failed, the first with a message, the second without:
\* nothing was shown.
C15_WitnessSilent ==
    /\ Finished("fetchServerProjects") /\ Len(Op.results) = 2
    /\ Op.results[1].type = "error" /\ Op.results[1].message = "m1"
    /\ Op.results[2].type = "error" /\ Op.results[2].message = Undefined
    /\ Op.shown = << >>

\* The messages of the results that are not of type success, in the order
\* in which the results came.
FailureMessages(results) ==
    LET failed == SelectSeq(results,
                      LAMBDA r : r.type /= "success" /\ r.message /= Undefined)
    IN  [i \in 1..Len(failed) |-> failed[i].message]

\* C16 as stated: an operation shows the message of every remote result
\* that is not of type success and carries a message, and shows nothing
\* else.
C16_EveryFailureShown ==
    Op.pc = "done" => Op.shown = FailureMessages(Op.results)

\* The operation op does not accept the result r it decides on.
Refused(op, r) ==
    CASE op = "loginServer" -> ~LoginAccepted(r)
      [] op = "fetchServerProjects" -> ~ListAccepted(r)
      [] op \in {"uploadProjectFile", "addProjectFolder"} ->
             ~(r.type = "success" /\ r.payload /= Undefined)
      [] op \in {"logoutServer", "getProjectFile"} -> FALSE
      [] OTHER -> r.type /= "success"

\* C16, amended: an operation shows at most one message, and only when it
\* returns: the message of the last result it received, when that result
\* carries one and the operation does not accept it.  Login does not accept
\* a result that is no success or lacks the identity or the user id, a
\* listing one that is no success or lacks the projects, upload and
\* addFolder one that is no success or lacks the entity; delete, rename,
\* move, compile, syncCode and syncPdf do not accept a result that is no
\* success.  The results of logout, getFile and deleteAuxFiles and of a
\* first listing that is followed by the fallback are never shown.
C16_LastRefusalShown ==
    /\ Op.pc /= "done" \/ Op.results = << >> => Op.shown = << >>
    /\ Op.pc = "done" /\ Op.results /= << >> =>
           LET last == Op.results[Len(Op.results)]
           IN  Op.shown = IF Refused(Op.op, last) /\ last.message /= Undefined
                          THEN << last.message >> ELSE << >>

\* A compile after a cache clear: deleteAuxFiles and compile both failed
\* with a message, and one message was shown.
C16_Witness ==
    /\ Finished("compileProjectEntity") /\ Len(Op.results) = 2
    /\ Op.results[1].type = "error" /\ Op.results[1].message = "m1"
    /\ Op.results[2].type = "error" /\ Op.results[2].message = "m1"
    /\ Op.shown = << "m1" >>

\* The operations that only read the registry.
ReadOnlyOps ==
    {"getProjectFile", "compileProjectEntity", "syncCode", "syncPdf",
     "authenticate", "initSocketIOAPI"} \cup EntityOps

\* C17: getProjectFile, the entity operations, compileProjectEntity,
\* syncCode, syncPdf, authenticate and initSocketIOAPI never write the
\* store: while such an operation runs and when it has returned, whatever
\* its remote calls answered, the registry is the one the operation read,
\* with the same entries, logins and cached projects.
C17_RegistryUnchanged ==
    Op.op \in ReadOnlyOps => Op.writes = 0 /\ store = Before

\* A file download failed on an entry that holds cached projects, next to
\* a second entry.
C17_Witness ==
    /\ Finished("getProjectFile") /\ WasLoggedIn
    /\ IsSome(LoginBefore.projects) /\ Val(LoginBefore.projects) /= << >>
    /\ Res.type = "error"
    /\ Op.ret = "empty"
    /\ DOMAIN store = OwnNames

\* A move succeeded on an entry that holds cached projects.
C17_WitnessMove ==
    /\ Finished("moveProjectEntity") /\ WasLoggedIn
    /\ IsSome(LoginBefore.projects) /\ Val(LoginBefore.projects) /= << >>
    /\ Op.ret = "true"

\* C18: the test of server.login does not serialize logins.  A loginServer
\* suspended at its remote call read the entry without a login; when the
\* call returns an accepted result it writes the registry it read, with its
\* own session on the entry, and returns true, whatever the store holds at
\* that moment: a session another login wrote in between is overwritten.
C18_LoginWritesItsSnapshot ==
    [][\A p \in Procs :
          frame[p].op = "loginServer" /\ frame[p].pc = "await" =>
              /\ frame[p].name \in DOMAIN frame[p].persists
              /\ frame[p].persists[frame[p].name].login = None
              /\ Len(frame[p].calls) = 1
              /\ (frame'[p].pc = "done"
                     /\ LoginAccepted(frame'[p].results[1])) =>
                     /\ frame'[p].ret = "true"
                     /\ store' = SetLogin(frame[p].persists, frame[p].name,
                                     Some(LoginSession(frame'[p].results[1],
                                                       frame[p].auth)))]_vars

\* Two logins on the same entry, both started on the entry without a login
\* and both answered with success: both returned true, and the store holds
\* the session of caller 2 while caller 1 logged in with other credentials.
C18_Witness ==
    /\ budget = MaxCalls - 3
    /\ \A p \in Procs :
           /\ frame[p].op = "loginServer" /\ frame[p].pc = "done"
           /\ frame[p].name = "lab"
           /\ frame[p].ret = "true" /\ frame[p].writes = 1
           /\ frame[p].persists["lab"].login = None
           /\ Len(frame[p].calls) = 1
    /\ frame[1].auth = Auth(Undefined, "e1", "pw")
    /\ frame[2].auth = Auth("c1", Undefined, Undefined)
    /\ "lab" \in DOMAIN store
    /\ store["lab"].login =
           Some(LoginSession(frame[2].results[1], frame[2].auth))
    /\ store["lab"].login /=
           Some(LoginSession(frame[1].results[1], frame[1].auth))

\* The persisted entry of name n in the registry reg, if there is one.
EntryOf(reg, n) == IF n \in DOMAIN reg THEN Some(reg[n]) ELSE None

\* The operations that write the registry.
WritingOps ==
    {"addServer", "removeServer", "loginServer", "logoutServer",
     "fetchServerProjects"}

\* C19: under every interleaving, a step of an operation on one server
\* leaves the persisted entry of every other server as it is: what an
\* addServer, removeServer, login, logout or fetch on B did while an
\* operation on A was suspended is still there after A has written the
\* registry back.
C19_Isolation ==
    [][\A p \in Procs :
          frame'[p] /= frame[p] /\ frame'[p].op \in WritingOps =>
              \A b \in Names \ {frame'[p].name} :
                  EntryOf(store', b) = EntryOf(store, b)]_vars

\* C20: once removeServer(name) has returned true the name stays out of
\* the registry until an addServer(name) returns true: with the removal the
\* last thing its caller did, the name becomes a key again only by the step
\* in which an addServer(name) is called on the current registry and
\* returns true, also when a login, logout or fetch on the name was
\* suspended when the entry was removed.
C20_RemovalDurable ==
    [][\A n \in Names :
          (/\ \E q \in Procs : /\ frame[q].op = "removeServer"
                               /\ frame[q].pc = "done"
                               /\ frame[q].name = n
                               /\ frame[q].ret = "true"
           /\ n \notin DOMAIN store
           /\ n \in DOMAIN store')
          => /\ budget' /= budget
             /\ \E p \in Procs : /\ frame'[p].op = "addServer"
                                 /\ frame'[p].name = n
                                 /\ frame'[p].ret = "true"
                                 /\ frame'[p].persists = store]_vars

====
